---- MODULE Spec2Model ----
(***************************************************************************)
(* Model of the rradio web client's state synchronisation core:            *)
(*   - FastEqRc, the reference counted handle compared by pointer          *)
(*     (src/src/fast_eq_rc.rs),                                            *)
(*   - UpdateFromDiff, the diff merge (src/src/update_from_diff.rs and     *)
(*     the impl for PlayerState in src/src/main.rs),                       *)
(*   - the connection task of Root (src/src/main.rs).                      *)
(*                                                                         *)
(* Three specifications share the variables:                               *)
(*   RcSpec    the FastEqRc operations on a table of handles,              *)
(*   DiffSpec  PlayerState::update_from_diff applied to bounded diffs,     *)
(*   Spec      the connection task with its environment (LiveSpec adds     *)
(*             the fairness of the timer and of the task's own steps).     *)
(***************************************************************************)
EXTENDS Integers, Sequences, FiniteSets, TLC

VARIABLES
    heap,            \* the Rc allocations: address -> [strong, value]
    handles,         \* FastEqRc handles held outside the player state
    births,          \* number of FastEqRc::new calls made on the handle table
    player_state,    \* the PlayerState held by use_state
    prev_state,      \* history: player_state before the last update_from_diff
    prev_heap,       \* history: heap before the last update_from_diff
    last_diff,       \* history: the diff of the last update_from_diff
    applied,         \* history: number of update_from_diff calls
    again,           \* history: the last call re-applied last_diff
    twin,            \* a clone of the player state the last diff was applied to as well
    pc,              \* where the connection task is suspended
    connection_state,             \* the ConnectionState held by use_state
    is_first_connection_attempt,  \* the task's flag
    commands,        \* the coroutine's unbounded channel, UI -> task
    sent,            \* history: the commands transmitted on a websocket
    submitted,       \* history: number of commands the UI submitted
    dropped,         \* history: number of commands sent to the channel after the task returned
    timer,           \* seconds the backoff sleep has left
    opens,           \* history: whether each open_with_protocol call succeeded
    errors,          \* history: number of errors the environment raised
    last_event,      \* history: the last thing the task handled
    channels,        \* number of websockets that are open
    banner,          \* what ConnectionStateView rendered last
    typed,           \* history: the text of the last input event
    issued,          \* history: the command handle_input built last
    snapshots,       \* the FastEqRc handles a view cloned from the player state
    trace,           \* history: the diffs applied to the player state, in order
    podcasts,        \* Signal<Vec<Podcast>>
    selected_podcast_index,  \* Signal<usize>
    new_podcast,     \* the text of the URL input
    new_podcast_error,       \* the text under the Add button
    stored,          \* LocalStorage[RRADIO_PODCASTS]
    fetching,        \* the URLs of the spawned add_podcast tasks awaiting their fetch
    last_add         \* history: how the last add_podcast task ended

diffVars == <<player_state, prev_state, prev_heap, last_diff, applied, again, twin>>
rcVars == <<handles, births>>
sessionVars == <<pc, connection_state, is_first_connection_attempt, commands,
                 sent, submitted, dropped, timer, opens, errors, last_event,
                 channels, banner>>
inputVars == <<typed, issued>>
viewVars == <<snapshots, trace>>
podcastVars == <<podcasts, selected_podcast_index, new_podcast, new_podcast_error,
                 stored, fetching, last_add>>
uiVars == <<inputVars, viewVars, podcastVars>>
vars == <<heap, handles, births, player_state, prev_state, prev_heap,
          last_diff, applied, again, twin, pc, connection_state,
          is_first_connection_attempt, commands, sent, submitted, dropped,
          timer, opens, errors, last_event, channels, banner, typed,
          issued,
          snapshots, trace, podcasts, selected_podcast_index, new_podcast,
          new_podcast_error, stored, fetching, last_add>>

(***************************************************************************)
(* Bounds                                                                  *)
(***************************************************************************)
MaxHandles == 3
MaxBirths == 3
MaxApply == 2
MaxCommands == 2
MaxErrors == 2

\* room for the allocations of the player state and of a clone of it, for
\* the handles and for one allocation more
Addr == 1..(MaxHandles + 5)

(***************************************************************************)
(* Option<T>: None is the empty sequence, Some(v) the sequence <<v>>.      *)
(***************************************************************************)
None == <<>>
Some(v) == <<v>>
IsSome(o) == Len(o) = 1
Unwrap(o) == o[1]

(***************************************************************************)
(* Rc<T>: an allocation has a strong count and an immutable value; an      *)
(* address whose count is 0 is free and may be handed out again.  Free     *)
(* addresses are interchangeable, so the allocator hands out the least.    *)
(***************************************************************************)
Freed == [strong |-> 0, value |-> <<>>]

FreeAddr(h) == {a \in Addr : h[a].strong = 0}

Alloc(h) == CHOOSE a \in FreeAddr(h) : \A b \in FreeAddr(h) : a <= b

\* Rc::clone(&self): one more strong reference to the same allocation
RcClone(h, a) == [h EXCEPT ![a].strong = @ + 1]

\* drop of an Rc: the allocation is freed with its last strong reference
RcDrop(h, a) ==
    IF h[a].strong = 1 THEN [h EXCEPT ![a] = Freed]
    ELSE [h EXCEPT ![a].strong = @ - 1]

(***************************************************************************)
(* FastEqRc<T>: a handle is the address of its allocation.  An operation   *)
(* that makes a handle yields the heap after it and the handle (ptr).      *)
(***************************************************************************)
\* FastEqRc::new(value): Rc::new
FastEqRcNew(h, v) ==
    [heap |-> [h EXCEPT ![Alloc(h)] = [strong |-> 1, value |-> v]],
     ptr  |-> Alloc(h)]

\* mutant: clone as a deep copy into a new allocation
FastEqRcCloneDeep(h, a) == FastEqRcNew(h, h[a].value)

\* impl Clone for FastEqRc<T>
FastEqRcClone(h, a) == [heap |-> RcClone(h, a), ptr |-> a]

\* FastEqRc::as_ref / Deref
AsRef(h, a) == h[a].value

\* mutant: equality by content, as a derived PartialEq would compare
FastEqByValue(h, a, b) == h[a].value = h[b].value

\* impl PartialEq for FastEqRc<T>: Rc::ptr_eq
FastEq(h, a, b) == a = b

(***************************************************************************)
(* PlayerState and PlayerStateDiff                                         *)
(***************************************************************************)
Fields == {"pipeline_state", "current_station", "pause_before_playing",
           "current_track_index", "current_track_tags", "is_muted", "volume",
           "buffering", "track_duration", "track_position", "ping_times"}

\* the fields of type FastEqRc<Option<_>>
WrappedFields == {"current_station", "current_track_tags"}

\* the fields whose value is itself an Option
OptionalFields == {"current_station", "current_track_tags",
                   "pause_before_playing", "track_duration", "track_position"}

\* the values a field (for a wrapped field: its content) ranges over
FieldValues(f) ==
    CASE f = "pipeline_state"       -> <<"Null", "Playing">>
      [] f = "current_station"      -> <<None, Some("A")>>
      [] f = "pause_before_playing" -> <<None, Some(5)>>
      [] f = "current_track_index"  -> <<0, 1>>
      [] f = "current_track_tags"   -> <<None, Some("T")>>
      [] f = "is_muted"             -> <<FALSE, TRUE>>
      [] f = "volume"               -> <<0, 10, 12>>
      [] f = "buffering"            -> <<0, 100>>
      [] f = "track_duration"       -> <<None, Some(60)>>
      [] f = "track_position"       -> <<None, Some(7)>>
      [] f = "ping_times"           -> <<"None", "Finished">>

\* #[derive(Default)] on PlayerState: the value (content) of each field
DefaultValue(f) ==
    CASE f = "pipeline_state"       -> "Null"
      [] f = "current_track_index"  -> 0
      [] f = "is_muted"             -> FALSE
      [] f = "volume"               -> 0
      [] f = "buffering"            -> 0
      [] f = "ping_times"           -> "None"
      [] OTHER                      -> None

\* PlayerState::default(): every wrapped field is a new allocation
\* (FastEqRc::default is Rc::default); the first two allocations are named
\* 1 and 2.
DefaultState ==
    [f \in Fields |->
        IF f = "current_station" THEN 1
        ELSE IF f = "current_track_tags" THEN 2
        ELSE DefaultValue(f)]

DefaultHeap ==
    [a \in Addr |-> IF a \in {1, 2} THEN [strong |-> 1, value |-> None] ELSE Freed]

\* the diff carrying no replacement at all
EmptyDiff == [f \in Fields |-> None]

\* PlayerStateDiff: per field None (unchanged) or Some(replacement).  The
\* diffs the environment sends: the empty diff, every diff replacing one
\* field, and every diff replacing all fields by their i-th values
SingleDiff(f, v) == [g \in Fields |-> IF g = f THEN Some(v) ELSE None]

SingleDiffs ==
    UNION {{SingleDiff(f, FieldValues(f)[i]) : i \in 1..Len(FieldValues(f))} :
              f \in Fields}

FullDiffs == {[f \in Fields |-> Some(FieldValues(f)[i])] : i \in 1..2}

Diffs == {EmptyDiff} \cup SingleDiffs \cup FullDiffs

DiffFields(d) == {f \in Fields : IsSome(d[f])}

\* the value of a field read through the handle (Deref) where wrapped
ValueOf(h, s, f) == IF f \in WrappedFields THEN AsRef(h, s[f]) ELSE s[f]

Values(h, s) == [f \in Fields |-> ValueOf(h, s, f)]

(***************************************************************************)
(* UpdateFromDiff                                                          *)
(***************************************************************************)
\* mutant: the diff is ignored
UpdatePlainIgnore(self, diff) == self

\* impl<T> UpdateFromDiff<Option<T>> for T
UpdatePlain(self, diff) == IF IsSome(diff) THEN Unwrap(diff) ELSE self

\* mutant: a replacement equal by content to the value held keeps the wrapper
UpdateRcKeepEqual(h, self, diff) ==
    IF IsSome(diff) /\ Unwrap(diff) # AsRef(h, self)
    THEN LET n == FastEqRcNew(h, Unwrap(diff))
         IN  [heap |-> RcDrop(n.heap, self), ptr |-> n.ptr]
    ELSE [heap |-> h, ptr |-> self]

\* mutant: a replacement by the absent value is taken for no replacement
UpdateRcFlatten(h, self, diff) ==
    IF IsSome(diff) /\ Unwrap(diff) # None
    THEN LET n == FastEqRcNew(h, Unwrap(diff))
         IN  [heap |-> RcDrop(n.heap, self), ptr |-> n.ptr]
    ELSE [heap |-> h, ptr |-> self]

\* mutant: the content is overwritten inside the allocation held
UpdateRcInPlace(h, self, diff) ==
    IF IsSome(diff)
    THEN [heap |-> [h EXCEPT ![self].value = Unwrap(diff)], ptr |-> self]
    ELSE [heap |-> h, ptr |-> self]

\* mutant: a new wrapper is made whether or not the diff carries a value
UpdateRcAlways(h, self, diff) ==
    LET n == FastEqRcNew(h, IF IsSome(diff) THEN Unwrap(diff) ELSE AsRef(h, self))
    IN  [heap |-> RcDrop(n.heap, self), ptr |-> n.ptr]

\* impl<T> UpdateFromDiff<Option<T>> for FastEqRc<T>: FastEqRc::new is
\* evaluated while the old handle is still held, the assignment drops it
UpdateRc(h, self, diff) ==
    IF IsSome(diff)
    THEN LET n == FastEqRcNew(h, Unwrap(diff))
         IN  [heap |-> RcDrop(n.heap, self), ptr |-> n.ptr]
    ELSE [heap |-> h, ptr |-> self]

\* mutant: the diff is taken as the whole new state, a field it does not
\* name falls back to its default
UpdateFromDiffReplace(h, s, d) ==
    LET full == [f \in Fields |-> IF IsSome(d[f]) THEN d[f] ELSE Some(DefaultValue(f))]
        r1 == UpdateRc(h, s.current_station, full.current_station)
        r2 == UpdateRc(r1.heap, s.current_track_tags, full.current_track_tags)
    IN  [heap  |-> r2.heap,
         state |-> [f \in Fields |->
                      IF f = "current_station" THEN r1.ptr
                      ELSE IF f = "current_track_tags" THEN r2.ptr
                      ELSE UpdatePlain(s[f], full[f])]]

\* mutant: a new station clears the tags of the track of the old one
UpdateFromDiffCoupled(h, s, d) ==
    LET tags == IF IsSome(d.current_station) /\ ~IsSome(d.current_track_tags)
                THEN Some(None) ELSE d.current_track_tags
        r1 == UpdateRc(h, s.current_station, d.current_station)
        r2 == UpdateRc(r1.heap, s.current_track_tags, tags)
    IN  [heap  |-> r2.heap,
         state |-> [f \in Fields |->
                      IF f = "current_station" THEN r1.ptr
                      ELSE IF f = "current_track_tags" THEN r2.ptr
                      ELSE UpdatePlain(s[f], d[f])]]

\* mutant: the impl misses the lines of the two wrapped fields
UpdateFromDiffPartial(h, s, d) ==
    [heap  |-> h,
     state |-> [f \in Fields |-> IF f \in WrappedFields THEN s[f]
                                 ELSE UpdatePlain(s[f], d[f])]]

\* impl UpdateFromDiff<PlayerStateDiff> for PlayerState: the fields are
\* updated one after the other, current_station before current_track_tags
UpdateFromDiff(h, s, d) ==
    LET r1 == UpdateRc(h, s.current_station, d.current_station)
        r2 == UpdateRc(r1.heap, s.current_track_tags, d.current_track_tags)
    IN  [heap  |-> r2.heap,
         state |-> [f \in Fields |->
                      IF f = "current_station" THEN r1.ptr
                      ELSE IF f = "current_track_tags" THEN r2.ptr
                      ELSE UpdatePlain(s[f], d[f])]]

(***************************************************************************)
(* ConnectionState and the task's errors                                   *)
(***************************************************************************)
Connecting == [tag |-> "Connecting", msg |-> <<>>]
Connected == [tag |-> "Connected", msg |-> <<>>]
Disconnected == [tag |-> "Disconnected", msg |-> <<>>]
ConnectionError(m) == [tag |-> "ConnectionError", msg |-> m]

\* mutant: the banner of Connected is not left out
ConnectionStateViewNeverHidden(cs) ==
    IF cs.tag = "ConnectionError" THEN Some(cs.msg)
    ELSE IF cs.tag = "Disconnected" THEN Some(<<"RRadio has terminated">>)
    ELSE Some(<<"Connecting...">>)

\* ConnectionStateView: the message in header#connection-message, None when
\* no header is rendered
ConnectionStateView(cs) ==
    IF cs.tag = "Connecting" THEN Some(<<"Connecting...">>)
    ELSE IF cs.tag = "Connected" THEN None
    ELSE IF cs.tag = "Disconnected" THEN Some(<<"RRadio has terminated">>)
    ELSE Some(cs.msg)

\* an anyhow error: the context the task attaches and the cause below it
Error(context, cause) == [context |-> context, cause |-> cause]

\* rradio_messages::arcstr::format!("{:#}", err): the context, then the cause
Format(err) ==
    IF err.cause = "" THEN <<err.context>> ELSE <<err.context, ": ", err.cause>>

OkResult == [ok |-> TRUE, err |-> Error("", "")]
ErrResult(err) == [ok |-> FALSE, err |-> err]

\* mutant: an orderly end is shown as an error too
HandleClosedAlwaysError(result) == ConnectionError(Format(result.err))

\* ConnectionState::handle_closed: the status set when the task returns
HandleClosed(result) ==
    IF result.ok THEN Disconnected ELSE ConnectionError(Format(result.err))

\* gloo_timers::future::sleep(Duration::from_secs(3))
BackoffSecs == 3

\* mutant: the sleep returns at once
SleepElapsedAtOnce(t) == TRUE

\* the sleep future completes when its time has run out
SleepElapsed(t) == t = 0

\* mutant: every error ends the task
IsFatalAlways(first) == TRUE

\* mutant: no error ends the task
IsFatalNever(first) == FALSE

\* the guard of the arm `Err(err) if is_first_connection_attempt`
IsFatal(first) == first

\* mutant: the status set after a successful open is Connecting
StatusAfterOpenConnecting == Connecting

\* use_connection_state.set(ConnectionState::Connected) after the open
StatusAfterOpen == Connected

\* the errors open_with_protocol may return
OpenErrors == {Error("Failed to open websocket", "refused"),
               Error("Failed to open websocket", "bad url")}

(***************************************************************************)
(* RcSpec: FastEqRc::new, clone and drop on a table of handles.  Each      *)
(* handle remembers the new() call its allocation comes from (origin).     *)
(***************************************************************************)
\* the state when Root has rendered once and the task has not run yet
SessionInit ==
    /\ pc = "start"
    /\ connection_state = Connecting
    /\ is_first_connection_attempt = TRUE
    /\ commands = <<>>
    /\ sent = <<>>
    /\ submitted = 0
    /\ dropped = 0
    /\ channels = 0
    /\ banner = ConnectionStateView(Connecting)
    /\ timer = 0
    /\ opens = <<>>
    /\ errors = 0
    /\ last_event = [kind |-> "none", err |-> Error("", ""), diff |-> EmptyDiff]

\* no input event has been handled
InputInit ==
    /\ typed = <<>>
    /\ issued = <<>>

\* no view has rendered
ViewInit ==
    /\ snapshots = <<>>
    /\ trace = <<>>

\* PodcastsView rendered for the first time with list: use_signal(Podcasts::load),
\* use_signal(|| 0), use_signal(String::new) twice
PodcastsLoaded(list) ==
    /\ stored = list
    /\ podcasts = list
    /\ selected_podcast_index = 0
    /\ new_podcast = ""
    /\ new_podcast_error = <<>>
    /\ fetching = <<>>
    /\ last_add = [n |-> 0, kind |-> "none"]

UiInit == InputInit /\ ViewInit /\ PodcastsLoaded(<<>>)

HandleNew(v) ==
    /\ Len(handles) < MaxHandles
    /\ births < MaxBirths
    /\ LET n == FastEqRcNew(heap, v)
       IN  /\ heap' = n.heap
           /\ handles' = Append(handles, [ptr |-> n.ptr, origin |-> births + 1])
    /\ births' = births + 1
    /\ UNCHANGED <<uiVars, diffVars, sessionVars>>

HandleClone(i) ==
    /\ Len(handles) < MaxHandles
    /\ LET c == FastEqRcClone(heap, handles[i].ptr)
       IN  /\ heap' = c.heap
           /\ handles' = Append(handles, [ptr |-> c.ptr, origin |-> handles[i].origin])
    /\ UNCHANGED <<uiVars, births, diffVars, sessionVars>>

HandleDrop(i) ==
    /\ heap' = RcDrop(heap, handles[i].ptr)
    /\ handles' = SubSeq(handles, 1, i - 1) \o SubSeq(handles, i + 1, Len(handles))
    /\ UNCHANGED <<uiVars, births, diffVars, sessionVars>>

RcInit ==
    /\ heap = DefaultHeap
    /\ handles = <<>>
    /\ births = 0
    /\ player_state = DefaultState
    /\ prev_state = DefaultState
    /\ prev_heap = DefaultHeap
    /\ last_diff = EmptyDiff
    /\ applied = 0
    /\ again = FALSE
    /\ twin = None
    /\ SessionInit
    /\ UiInit

RcNext ==
    \/ \E v \in {None, Some("A")} : HandleNew(v)
    \/ \E i \in 1..Len(handles) : HandleClone(i)
    \/ \E i \in 1..Len(handles) : HandleDrop(i)

RcSpec == RcInit /\ [][RcNext]_vars

(***************************************************************************)
(* DiffSpec: update_from_diff applied to the player state, from the        *)
(* default state, MaxApply diffs at most, each possibly applied twice.     *)
(***************************************************************************)
\* #[derive(Clone)] on PlayerState: the clone shares both allocations
CloneState(h, st) == RcClone(RcClone(h, st.current_station), st.current_track_tags)

\* drop of a PlayerState
DropState(h, st) == RcDrop(RcDrop(h, st.current_station), st.current_track_tags)

\* the clone a previous step left goes out of scope
DropTwin(h) == IF IsSome(twin) THEN DropState(h, Unwrap(twin)) ELSE h

\* a first application of a diff
Apply ==
    /\ applied < MaxApply
    /\ \E d \in Diffs :
         LET r == UpdateFromDiff(DropTwin(heap), player_state, d)
         IN  /\ player_state' = r.state
             /\ heap' = r.heap
             /\ last_diff' = d
    /\ prev_state' = player_state
    /\ prev_heap' = DropTwin(heap)
    /\ applied' = applied + 1
    /\ again' = FALSE
    /\ twin' = None
    /\ UNCHANGED <<uiVars, rcVars, sessionVars>>

\* the diff just applied is applied once more
ApplyAgain ==
    /\ applied > 0
    /\ ~again
    /\ LET r == UpdateFromDiff(DropTwin(heap), player_state, last_diff)
       IN  /\ player_state' = r.state
           /\ heap' = r.heap
    /\ prev_state' = player_state
    /\ prev_heap' = DropTwin(heap)
    /\ again' = TRUE
    /\ twin' = None
    /\ UNCHANGED <<uiVars, last_diff, applied, rcVars, sessionVars>>

\* the state is cloned and one diff is applied to the state and to the clone
ApplyBoth ==
    /\ applied < MaxApply
    /\ \E d \in Diffs :
         LET h0 == CloneState(DropTwin(heap), player_state)
             r  == UpdateFromDiff(h0, player_state, d)
             rt == UpdateFromDiff(r.heap, player_state, d)
         IN  /\ player_state' = r.state
             /\ twin' = Some(rt.state)
             /\ heap' = rt.heap
             /\ last_diff' = d
    /\ prev_state' = player_state
    /\ prev_heap' = DropTwin(heap)
    /\ applied' = applied + 1
    /\ again' = FALSE
    /\ UNCHANGED <<uiVars, rcVars, sessionVars>>

DiffInit == RcInit

DiffNext == Apply \/ ApplyAgain \/ ApplyBoth

DiffSpec == DiffInit /\ [][DiffNext]_vars

(***************************************************************************)
(* Spec: the connection task of Root and its environment (the UI that      *)
(* submits commands, the websocket, the timer).  A step of the task runs   *)
(* from one await to the next.                                             *)
(***************************************************************************)
\* the diffs the server sends during a session
SessionDiffs ==
    {EmptyDiff, SingleDiff("volume", 12), SingleDiff("volume", 10),
     SingleDiff("current_station", Some("A")),
     [SingleDiff("volume", 12) EXCEPT !["current_station"] = Some(Some("A"))]}

\* what the task handled: its kind, the error it raised, the diff it carried
Event(kind, err) == [kind |-> kind, err |-> err, diff |-> EmptyDiff]

DiffEvent(d) == [Event("diff", Error("", "")) EXCEPT !.diff = d]

NoError == Error("", "")

\* the task's future completes with result: handle_closed sets the status,
\* the receiver of the commands channel is dropped with what it holds
Return(result) ==
    /\ pc' = "done"
    /\ connection_state' = HandleClosed(result)
    /\ banner' = ConnectionStateView(HandleClosed(result))
    /\ commands' = <<>>
    /\ timer' = 0

\* `match result` after the connection's async block, then the sleep
OnResult(result, queue) ==
    IF result.ok \/ IsFatal(is_first_connection_attempt)
    THEN Return(result)
    ELSE /\ connection_state' = ConnectionError(Format(result.err))
         /\ banner' = ConnectionStateView(ConnectionError(Format(result.err)))
         /\ pc' = "sleep"
         /\ timer' = BackoffSecs
         /\ commands' = queue

\* mutant: the websocket of a connection that ended stays open
ClosedLeak(n) == n

\* the connection's async block ends: websocket_tx and websocket_rx are its
\* locals and are dropped with it, which closes the websocket
Closed(n) == n - 1

\* the lookup of the host fails before the loop is entered
HostFail ==
    /\ pc = "start"
    /\ errors < MaxErrors
    /\ Return(ErrResult(Error("No Window!", "")))
    /\ errors' = errors + 1
    /\ last_event' = Event("host_err", Error("No Window!", ""))
    /\ UNCHANGED <<uiVars, channels, is_first_connection_attempt, sent, submitted, dropped, opens,
                   heap, rcVars, diffVars>>

\* mutant: the flag is left as it is when the open succeeds
FlagAfterOpenUnchanged(first) == first

\* is_first_connection_attempt = false, the statement after the open
FlagAfterOpen(first) == FALSE

\* open_with_protocol succeeds, on the first poll of the task or when the
\* backoff sleep has returned
ConnectOk ==
    /\ pc = "start" \/ (pc = "sleep" /\ SleepElapsed(timer))
    /\ opens' = Append(opens, TRUE)
    /\ is_first_connection_attempt' = FlagAfterOpen(is_first_connection_attempt)
    /\ connection_state' = StatusAfterOpen
    /\ banner' = ConnectionStateView(StatusAfterOpen)
    /\ pc' = "select"
    /\ timer' = 0
    /\ last_event' = Event("open_ok", NoError)
    /\ channels' = channels + 1
    /\ UNCHANGED <<uiVars, commands, sent, submitted, dropped, errors, heap, rcVars, diffVars>>

\* open_with_protocol fails
ConnectErr(err) ==
    /\ pc = "start" \/ (pc = "sleep" /\ SleepElapsed(timer))
    /\ errors < MaxErrors
    /\ opens' = Append(opens, FALSE)
    /\ OnResult(ErrResult(err), commands)
    /\ errors' = errors + 1
    /\ last_event' = Event("open_err", err)
    /\ UNCHANGED <<uiVars, channels, is_first_connection_attempt, sent, submitted, dropped,
                   heap, rcVars, diffVars>>

\* one second of the backoff sleep passes
Tick ==
    /\ pc = "sleep"
    /\ timer > 0
    /\ timer' = timer - 1
    /\ UNCHANGED <<uiVars, channels, pc, connection_state, banner, is_first_connection_attempt, commands,
                   sent, submitted, dropped, opens, errors, last_event,
                   heap, rcVars, diffVars>>

\* mutant: bytes that are no Event end the loop the way a close does
EventResultDecodeIsClose(kind) ==
    IF kind = "recv_err"
    THEN ErrResult(Error("Failed to receive websocket message", "connection error"))
    ELSE OkResult

\* mutant: a close is an error like the others
EventResultCloseIsError(kind) ==
    IF kind = "close" THEN ErrResult(Error("Failed to receive websocket message", "closed"))
    ELSE IF kind = "recv_err"
      THEN ErrResult(Error("Failed to receive websocket message", "connection error"))
    ELSE ErrResult(Error("Failed to decode Event", "invalid data"))

\* how an event that ends the select loop ends the async block:
\* Err(ConnectionClose) breaks out of the loop to Ok(()), another Err and an
\* undecodable binary message leave it through `?`
EventResult(kind) ==
    IF kind = "close" THEN OkResult
    ELSE IF kind = "recv_err"
      THEN ErrResult(Error("Failed to receive websocket message", "connection error"))
    ELSE ErrResult(Error("Failed to decode Event", "invalid data"))

\* the inbound messages the select loop logs and otherwise ignores, a text
\* message and Event::LogMessage, as receiving only bytes that decode would
IsLoggedBytesOnly(kind) == kind = "log"

\* the inbound messages the select loop logs and otherwise ignores: a text
\* message and Event::LogMessage
IsLogged(kind) == kind \in {"text", "log"}

\* the kinds of inbound message other than a close and a decoded diff
Inbound == {"recv_err", "decode_err", "text", "log"}

\* the websocket reports that the connection was closed
RecvClose ==
    /\ pc = "select"
    /\ OnResult(EventResult("close"), commands)
    /\ last_event' = Event("close", NoError)
    /\ channels' = Closed(channels)
    /\ UNCHANGED <<uiVars, is_first_connection_attempt, sent, submitted, dropped, opens, errors,
                   heap, rcVars, diffVars>>

\* the websocket reports an error, or delivers bytes that are no Event
RecvError(kind) ==
    /\ pc = "select"
    /\ ~IsLogged(kind)
    /\ errors < MaxErrors
    /\ OnResult(EventResult(kind), commands)
    /\ errors' = errors + 1
    /\ last_event' = Event(kind, EventResult(kind).err)
    /\ channels' = Closed(channels)
    /\ UNCHANGED <<uiVars, is_first_connection_attempt, sent, submitted, dropped, opens,
                   heap, rcVars, diffVars>>

\* a text message, or Event::LogMessage: logged
RecvIgnored(kind) ==
    /\ pc = "select"
    /\ IsLogged(kind)
    /\ last_event' = Event(kind, NoError)
    /\ UNCHANGED <<uiVars, channels, pc, connection_state, banner, is_first_connection_attempt, commands,
                   sent, submitted, dropped, timer, opens, errors,
                   heap, rcVars, diffVars>>

\* Event::PlayerStateChanged(diff): player_state_store.with_mut
RecvDiff(d) ==
    /\ pc = "select"
    /\ LET r == UpdateFromDiff(heap, player_state, d)
       IN  /\ player_state' = r.state
           /\ heap' = r.heap
    /\ last_event' = DiffEvent(d)
    /\ UNCHANGED <<uiVars, channels, pc, connection_state, banner, is_first_connection_attempt, commands,
                   sent, submitted, dropped, timer, opens, errors, rcVars,
                   prev_state, prev_heap, last_diff, applied, again, twin>>

\* mutant: the channel hands out the newest command first
NextCommandNewest(q) == q[Len(q)]

\* commands.next(): the unbounded channel hands out the oldest command
NextCommand(q) == Head(q)

\* the channel once command c has been taken from it
Without(q, c) == SelectSeq(q, LAMBDA x : x # c)

\* mutant: a command whose encode or send failed is put back for the next
\* connection
AfterFailedSendRequeue(q, c) == q

\* the channel after the Command arm left through `?`: the command it had
\* taken is gone with the arm's locals
AfterFailedSend(q, c) == Without(q, c)

\* mutant: the Command arm writes the expected effect into the player state
AfterCommandOptimistic(h, s) == [heap |-> h, state |-> [s EXCEPT !.volume = 10]]

\* the player state after the Command arm: the arm encodes and sends, it
\* holds no reference to player_state_store
AfterCommand(h, s) == [heap |-> h, state |-> s]

\* the select loop takes the next command from the channel, encodes it and
\* sends it on the websocket
TransmitOk ==
    /\ pc = "select"
    /\ commands # <<>>
    /\ LET c == NextCommand(commands)
           r == AfterCommand(heap, player_state)
       IN  /\ commands' = Without(commands, c)
           /\ sent' = Append(sent, [id |-> c.id, at |-> c.at, conn |-> Len(opens)])
           /\ heap' = r.heap
           /\ player_state' = r.state
    /\ last_event' = Event("cmd_sent", NoError)
    /\ UNCHANGED <<uiVars, channels, pc, connection_state, banner, is_first_connection_attempt,
                   submitted, dropped, timer, opens, errors, rcVars,
                   prev_state, prev_heap, last_diff, applied, again, twin>>

\* encoding or sending the command taken from the channel fails
TransmitErr(err) ==
    /\ pc = "select"
    /\ commands # <<>>
    /\ errors < MaxErrors
    /\ OnResult(ErrResult(err), AfterFailedSend(commands, NextCommand(commands)))
    /\ errors' = errors + 1
    /\ last_event' = Event("cmd_err", err)
    /\ channels' = Closed(channels)
    /\ UNCHANGED <<uiVars, is_first_connection_attempt, sent, submitted, dropped, opens,
                   heap, rcVars, diffVars>>

TransmitErrors == {Error("Failed to encode Command", "encode"),
                   Error("Failed to send websocket message", "send")}

\* mutant: the channel outlives the task
ReceiverAliveAlways(p) == TRUE

\* the task, which owns the receiver of the commands channel, has not returned
ReceiverAlive(p) == p # "done"

\* the UI calls commands.send: the command enters the channel while the
\* task holds the receiver, and is lost once the task has returned
SendCommand ==
    /\ submitted < MaxCommands
    /\ submitted' = submitted + 1
    /\ IF ReceiverAlive(pc)
       THEN /\ commands' = Append(commands, [id |-> submitted + 1,
                                             at |-> connection_state.tag])
            /\ dropped' = dropped
       ELSE /\ commands' = commands
            /\ dropped' = dropped + 1
    /\ UNCHANGED <<channels, pc, connection_state, banner, is_first_connection_attempt, sent,
                   timer, opens, errors, last_event, heap, rcVars, diffVars>>

\* an event handler of the UI sends a command: a button, or an input whose
\* text parses
SubmitCommand == SendCommand /\ UNCHANGED uiVars

Init == RcInit

Next ==
    \/ HostFail
    \/ ConnectOk
    \/ \E err \in OpenErrors : ConnectErr(err)
    \/ Tick
    \/ RecvClose
    \/ \E kind \in Inbound : RecvError(kind)
    \/ \E kind \in Inbound : RecvIgnored(kind)
    \/ \E d \in SessionDiffs : RecvDiff(d)
    \/ TransmitOk
    \/ \E err \in TransmitErrors : TransmitErr(err)
    \/ SubmitCommand

Spec == Init /\ [][Next]_vars

\* the timer runs, and the task is polled when its sleep has returned
Retry == pc = "sleep" /\ (ConnectOk \/ \E err \in OpenErrors : ConnectErr(err))

LiveSpec == Spec /\ WF_vars(Tick) /\ WF_vars(Retry)

(***************************************************************************)
(* InputSpec: handle_input on the texts an input element may deliver, for  *)
(* the volume input (SetVolume, i32) and the position input (SeekTo, u64   *)
(* seconds).  Texts have MaxText characters at most, which keeps every     *)
(* number far below the limits of both types.                              *)
(***************************************************************************)
MaxText == 2

Chars == {"1", "2", "+", "-", "a"}

Texts == UNION {[1..n -> Chars] : n \in 0..MaxText}

\* the inputs that call handle_input, with the command each builds and
\* whether the type it parses is signed
Inputs == {[name |-> "SetVolume", signed |-> TRUE],
           [name |-> "SeekTo", signed |-> FALSE]}

IsDigit(c) == c \in {"0", "1", "2", "3", "4", "5", "6", "7", "8", "9"}

DigitValue(c) ==
    CASE c = "0" -> 0 [] c = "1" -> 1 [] c = "2" -> 2 [] c = "3" -> 3
      [] c = "4" -> 4 [] c = "5" -> 5 [] c = "6" -> 6 [] c = "7" -> 7
      [] c = "8" -> 8 [] c = "9" -> 9

ParseErr == [ok |-> FALSE, value |-> 0]

\* the digit loop of from_str: every character must be a digit
RECURSIVE ParseDigits(_, _, _)
ParseDigits(t, acc, sign) ==
    IF t = <<>> THEN [ok |-> TRUE, value |-> acc]
    ELSE IF ~IsDigit(Head(t)) THEN ParseErr
    ELSE ParseDigits(Tail(t), acc * 10 + sign * DigitValue(Head(t)), sign)

\* mutant: surrounding characters that are no digits are skipped, as a
\* lenient parser would
FromStrLenient(signed, t) ==
    ParseDigits(SelectSeq(t, IsDigit), 0, 1)

\* <i32 as FromStr>::from_str and <u64 as FromStr>::from_str: an empty text
\* and a lone sign are errors, a leading + is accepted, a leading - only by
\* the signed type, no other character but digits is
FromStr(signed, t) ==
    IF t = <<>> THEN ParseErr
    ELSE IF Head(t) \in {"+", "-"} /\ Tail(t) = <<>> THEN ParseErr
    ELSE IF Head(t) = "+" THEN ParseDigits(Tail(t), 0, 1)
    ELSE IF Head(t) = "-" /\ signed THEN ParseDigits(Tail(t), 0, -1)
    ELSE ParseDigits(t, 0, 1)

\* f(value): the command the closure of the call site builds
Command(name, value) == [name |-> name, arg |-> value]

\* an input event with text t on input i: handle_input
HandleInput(i, t) ==
    /\ typed' = <<[input |-> i.name, text |-> t]>>
    /\ LET r == FromStr(i.signed, t)
       IN  IF r.ok
           THEN /\ SendCommand
                /\ issued' = <<Command(i.name, r.value)>>
           ELSE UNCHANGED <<issued, sessionVars, heap, rcVars, diffVars>>
    /\ UNCHANGED <<viewVars, podcastVars>>

InputNext == \E i \in Inputs : \E t \in Texts : HandleInput(i, t)

InputSpec == RcInit /\ [][InputNext]_vars

(***************************************************************************)
(* ViewSpec: diffs applied to the player state while the view keeps clones *)
(* of the two wrapped fields as props of its children.  Each clone         *)
(* remembers the content it was taken with and whether a diff applied      *)
(* since has carried a replacement for its field.                          *)
(***************************************************************************)
MaxSnapshots == 2

\* the diffs applied under ViewSpec: both contents of each wrapped field,
\* two volumes, alone and together
ViewDiffs ==
    {EmptyDiff,
     SingleDiff("current_station", None), SingleDiff("current_station", Some("A")),
     SingleDiff("current_track_tags", None), SingleDiff("current_track_tags", Some("T")),
     SingleDiff("volume", 10), SingleDiff("volume", 12)} \cup FullDiffs

\* View renders: the child's prop is player_state.<f>.clone()
Snapshot(f) ==
    /\ Len(snapshots) < MaxSnapshots
    /\ LET c == FastEqRcClone(heap, player_state[f])
       IN  /\ heap' = c.heap
           /\ snapshots' = Append(snapshots,
                                  [field |-> f, ptr |-> c.ptr, replaced |-> FALSE,
                                   content |-> AsRef(heap, player_state[f])])
    /\ UNCHANGED <<trace, player_state, prev_state, prev_heap, last_diff, applied,
                   again, twin, rcVars, sessionVars, inputVars, podcastVars>>

\* the child is rendered with a newer prop or unmounted: its clone is dropped
Release(i) ==
    /\ heap' = RcDrop(heap, snapshots[i].ptr)
    /\ snapshots' = SubSeq(snapshots, 1, i - 1) \o SubSeq(snapshots, i + 1, Len(snapshots))
    /\ UNCHANGED <<trace, player_state, prev_state, prev_heap, last_diff, applied,
                   again, twin, rcVars, sessionVars, inputVars, podcastVars>>

\* player_state_store.with_mut(|s| s.update_from_diff(d))
ViewApply(d) ==
    /\ Len(trace) < MaxApply
    /\ LET r == UpdateFromDiff(heap, player_state, d)
       IN  /\ player_state' = r.state
           /\ heap' = r.heap
    /\ trace' = Append(trace, d)
    /\ snapshots' = [i \in 1..Len(snapshots) |->
                       IF IsSome(d[snapshots[i].field])
                       THEN [snapshots[i] EXCEPT !.replaced = TRUE]
                       ELSE snapshots[i]]
    /\ prev_state' = player_state
    /\ prev_heap' = heap
    /\ last_diff' = d
    /\ UNCHANGED <<applied, again, twin, rcVars, sessionVars, inputVars, podcastVars>>

ViewNext ==
    \/ \E f \in WrappedFields : Snapshot(f)
    \/ \E i \in 1..Len(snapshots) : Release(i)
    \/ \E d \in ViewDiffs : ViewApply(d)

ViewSpec == RcInit /\ [][ViewNext]_vars

(***************************************************************************)
(* PodcastSpec: the podcast list of podcasts_view.rs, its selection and    *)
(* the copy of it in local storage                                         *)
(***************************************************************************)
MaxAdds == 2
MaxFetching == 1

Urls == {"u1", "u2"}

\* titles as sequences of chars; the titles a fetched channel may carry
Titles == {<<"a">>, <<"A">>, <<"B">>, <<"a", "b">>}

Podcast(title, url) == [title |-> title, url |-> url]

\* char::to_lowercase on the chars of Titles
ToLowercase(c) == IF c = "A" THEN "a" ELSE IF c = "B" THEN "b" ELSE c

Lowercase(t) == [i \in 1..Len(t) |-> ToLowercase(t[i])]

\* the scalar value char's Ord compares
CodePoint(c) ==
    CASE c = "A" -> 65 [] c = "B" -> 66 [] c = "a" -> 97 [] c = "b" -> 98

\* the loop of the closure given to sort_by, on two char iterators
RECURSIVE CmpChars(_, _)
CmpChars(a, b) ==
    IF a = <<>> /\ b = <<>> THEN "Equal"
    ELSE IF b = <<>> THEN "Greater"
    ELSE IF a = <<>> THEN "Less"
    ELSE IF Head(a) = Head(b) THEN CmpChars(Tail(a), Tail(b))
    ELSE IF CodePoint(Head(a)) < CodePoint(Head(b)) THEN "Less"
    ELSE "Greater"

\* mutant: the titles are compared as they are written
CompareCaseSensitive(a, b) == CmpChars(a.title, b.title)

\* the closure given to sort_by
Compare(a, b) == CmpChars(Lowercase(a.title), Lowercase(b.title))

\* one step of the stable sort: x, the last element, moves left past the
\* elements it is less than
RECURSIVE InsertTail(_, _)
InsertTail(s, x) ==
    IF s = <<>> THEN <<x>>
    ELSE IF Compare(x, s[Len(s)]) = "Less"
         THEN Append(InsertTail(SubSeq(s, 1, Len(s) - 1), x), s[Len(s)])
         ELSE Append(s, x)

\* slice::sort_by, a stable sort
RECURSIVE SortBy(_)
SortBy(s) ==
    IF s = <<>> THEN <<>>
    ELSE InsertTail(SortBy(SubSeq(s, 1, Len(s) - 1)), s[Len(s)])

\* iter().enumerate().find_map(url == url).unwrap_or_default(), 0-based
IndexOfUrl(list, url) ==
    LET hits == {i \in 1..Len(list) : list[i].url = url}
    IN  IF hits = {} THEN 0
        ELSE (CHOOSE i \in hits : \A j \in hits : i <= j) - 1

\* the stored list after save(): LocalStorage::set may fail, and the failure
\* is logged
Save(old, list, ok) == IF ok THEN list ELSE old

\* format!("{err:#}") of the errors of Podcast::fetch
FetchErrors(url) ==
    {<<"Failed to fetch ", url, ": Error 404">>,
     <<"Failed to parse RSS from ", url>>}

RemoveAt(s, i) == SubSeq(s, 1, i - 1) \o SubSeq(s, i + 1, Len(s))

NotPodcasts == <<heap, rcVars, diffVars, sessionVars, inputVars, viewVars>>

\* oninput of the URL field
TypeUrl(u) ==
    /\ new_podcast' = u
    /\ UNCHANGED <<podcasts, selected_podcast_index, new_podcast_error, stored,
                   fetching, last_add>>
    /\ UNCHANGED NotPodcasts

\* onclick of Add Podcast: the task takes the text of the field and starts
\* the fetch
AddPodcast ==
    /\ Len(fetching) < MaxFetching
    /\ last_add.n + Len(fetching) < MaxAdds
    /\ fetching' = Append(fetching, new_podcast)
    /\ new_podcast' = ""
    /\ UNCHANGED <<podcasts, selected_podcast_index, new_podcast_error, stored,
                   last_add>>
    /\ UNCHANGED NotPodcasts

\* the fetch of task i ends in Ok(channel) with the title given
FetchOk(i, title, ok) ==
    /\ LET url == fetching[i]
           current_podcasts == SortBy(Append(podcasts, Podcast(title, url)))
       IN  /\ podcasts' = current_podcasts
           /\ selected_podcast_index' = IndexOfUrl(current_podcasts, url)
           /\ stored' = Save(stored, current_podcasts, ok)
    /\ fetching' = RemoveAt(fetching, i)
    /\ last_add' = [n |-> last_add.n + 1, kind |-> "ok"]
    /\ UNCHANGED <<new_podcast, new_podcast_error>>
    /\ UNCHANGED NotPodcasts

\* the fetch of task i ends in Err(err)
FetchErr(i, text) ==
    /\ new_podcast_error' = text
    /\ fetching' = RemoveAt(fetching, i)
    /\ last_add' = [n |-> last_add.n + 1, kind |-> "err"]
    /\ UNCHANGED <<podcasts, selected_podcast_index, new_podcast, stored>>
    /\ UNCHANGED NotPodcasts

\* oninput of the select: the value of an option parsed, 0 when it is not a
\* number (the empty option)
SelectPodcast(v) ==
    /\ selected_podcast_index' = (IF IsSome(v) THEN Unwrap(v) ELSE 0)
    /\ UNCHANGED <<podcasts, new_podcast, new_podcast_error, stored, fetching,
                   last_add>>
    /\ UNCHANGED NotPodcasts

\* onclick of Remove Podcast, the dialog confirmed
RemovePodcast(ok) ==
    /\ selected_podcast_index < Len(podcasts)
    /\ podcasts' = RemoveAt(podcasts, selected_podcast_index + 1)
    /\ stored' = Save(stored, podcasts', ok)
    /\ selected_podcast_index' = 0
    /\ UNCHANGED <<new_podcast, new_podcast_error, fetching, last_add>>
    /\ UNCHANGED NotPodcasts

\* the page is loaded again: the tasks are gone and the view starts from
\* the stored list
Reload ==
    /\ podcasts' = stored
    /\ selected_podcast_index' = 0
    /\ new_podcast' = ""
    /\ new_podcast_error' = <<>>
    /\ fetching' = <<>>
    /\ UNCHANGED <<stored, last_add>>
    /\ UNCHANGED NotPodcasts

PodcastNext ==
    \/ \E u \in Urls \cup {""} : TypeUrl(u)
    \/ AddPodcast
    \/ \E i \in 1..Len(fetching) : \E t \in Titles : \E ok \in BOOLEAN :
           FetchOk(i, t, ok)
    \/ \E i \in 1..Len(fetching) : \E e \in FetchErrors(fetching[i]) :
           FetchErr(i, e)
    \/ \E v \in {None} \cup {Some(i) : i \in 0..(Len(podcasts) - 1)} :
           SelectPodcast(v)
    \/ \E ok \in BOOLEAN : RemovePodcast(ok)
    \/ Reload

PodcastSpec == RcInit /\ [][PodcastNext]_vars

(***************************************************************************)
(* The diff merge laws, under DiffSpec                                     *)
(***************************************************************************)
\* the fields the last diff carries a replacement for
Replaced == DiffFields(last_diff)

\* C1 Replacement law: after update_from_diff every field the diff carries
\* a replacement x for has value x, and a FastEqRc field among them holds a
\* wrapper that is not identity-equal to the one held before the call.
C1_ReplacementLaw ==
    applied > 0 =>
        \A f \in Replaced :
            /\ ValueOf(heap, player_state, f) = Unwrap(last_diff[f])
            /\ f \in WrappedFields => ~FastEq(heap, player_state[f], prev_state[f])

\* a diff replacing every field has been applied to a state that already
\* held a station and tags
C1_Witness ==
    /\ applied = 2
    /\ Replaced = Fields
    /\ AsRef(prev_heap, prev_state.current_station) = Some("A")
    /\ AsRef(heap, player_state.current_station) = None
    /\ player_state.volume = 0

\* C2 Frame law: every field the diff leaves unchanged keeps its value, a
\* FastEqRc field among them stays identity-equal to the wrapper held before
\* and keeps its content; the empty diff leaves the state as it was and
\* allocates nothing; with station A and volume 10, the diff setting only volume to
\* 12 leaves the station's wrapper in place and the volume at 12.
C2_FrameLaw ==
    applied > 0 =>
        /\ \A f \in Fields \ Replaced :
            /\ ValueOf(heap, player_state, f) = ValueOf(prev_heap, prev_state, f)
            /\ f \in WrappedFields => FastEq(heap, player_state[f], prev_state[f])
            /\ f \notin WrappedFields => player_state[f] = prev_state[f]
        /\ last_diff = EmptyDiff =>
            /\ player_state = prev_state
            /\ FreeAddr(heap) = FreeAddr(prev_heap)
        /\ ( /\ last_diff = SingleDiff("volume", 12)
             /\ AsRef(prev_heap, prev_state.current_station) = Some("A")
             /\ prev_state.volume = 10 )
            => /\ FastEq(heap, player_state.current_station, prev_state.current_station)
               /\ AsRef(heap, player_state.current_station) = Some("A")
               /\ player_state.volume = 12

\* the partial diff scenario: station A, volume 10, then volume 12 alone
C2_Witness ==
    /\ last_diff = SingleDiff("volume", 12)
    /\ AsRef(prev_heap, prev_state.current_station) = Some("A")
    /\ prev_state.volume = 10
    /\ player_state.volume = 12

\* C4 Idempotence on values, not on identity: the second application of a
\* diff leaves every value as the first did, and the diff applied to a
\* clone of the starting state gives the values it gives on the state; but
\* each application carrying a replacement for a FastEqRc field makes a
\* fresh wrapper, also when the content replaced is equal by value.
C4_IdempotentValuesFreshIdentity ==
    /\ again =>
          /\ Values(heap, player_state) = Values(prev_heap, prev_state)
          /\ \A f \in WrappedFields \cap Replaced :
                /\ AsRef(heap, player_state[f]) = AsRef(prev_heap, prev_state[f])
                /\ ~FastEq(heap, player_state[f], prev_state[f])
    /\ IsSome(twin) =>
          /\ Values(heap, Unwrap(twin)) = Values(heap, player_state)
          /\ \A f \in WrappedFields \cap Replaced :
                /\ ~FastEq(heap, Unwrap(twin)[f], player_state[f])
                /\ ~FastEq(heap, Unwrap(twin)[f], prev_state[f])
                /\ ~FastEq(heap, player_state[f], prev_state[f])
    /\ applied > 0 =>
          \A f \in WrappedFields \cap Replaced :
              AsRef(heap, player_state[f]) = AsRef(prev_heap, prev_state[f])
                  => ~FastEq(heap, player_state[f], prev_state[f])

\* station A has been applied a second time
C4_Witness ==
    /\ again
    /\ last_diff = SingleDiff("current_station", Some("A"))
    /\ AsRef(prev_heap, prev_state.current_station) = Some("A")

(***************************************************************************)
(* The identity law, under RcSpec                                          *)
(***************************************************************************)
\* C3 Identity law: two handles are equal iff they come from the same new()
\* call, through any chain of clones; handles from separate new() calls are
\* unequal also when their contents are equal.
C3_IdentityLaw ==
    \A i, j \in 1..Len(handles) :
        FastEq(heap, handles[i].ptr, handles[j].ptr)
            <=> handles[i].origin = handles[j].origin

\* a handle, a clone of it, and a handle from another new() of equal content
C3_Witness ==
    \E i, j, k \in 1..Len(handles) :
        /\ i # j
        /\ handles[i].origin = handles[j].origin
        /\ handles[k].origin # handles[i].origin
        /\ AsRef(heap, handles[k].ptr) = AsRef(heap, handles[i].ptr)
        /\ births = MaxBirths

(***************************************************************************)
(* The connection state machine, under Spec and LiveSpec                   *)
(***************************************************************************)
Attempts == Len(opens)

FirstAttemptFailed == Attempts >= 1 /\ ~opens[1]

\* C5 First-attempt failure is fatal: once the first open_with_protocol
\* call has failed the task has returned, the status is the error status
\* with the message of that error, there is no second attempt and no
\* backoff sleep, in this state and in every later one.
C5_FirstAttemptFatal ==
    FirstAttemptFailed =>
        /\ pc = "done"
        /\ last_event.kind = "open_err"
        /\ last_event.err \in OpenErrors
        /\ connection_state = ConnectionError(Format(last_event.err))
        /\ Attempts = 1
        /\ timer = 0

\* the first open was refused, and the UI went on submitting commands
C5_Witness ==
    /\ FirstAttemptFailed
    /\ last_event.err.cause = "refused"
    /\ submitted = MaxCommands

\* C6 Error after a successful connection: whenever the backoff sleep runs
\* the status already is ConnectionError with the message of the error; the
\* sleep starts at the fixed delay; no attempt is made while time is left;
\* an attempt made from the sleep is one attempt; and once no time is left
\* the attempt is made.
C6_ErrorThenOneRetryAfterDelay ==
    /\ [](pc = "sleep" =>
            /\ connection_state = ConnectionError(Format(last_event.err))
            /\ ~is_first_connection_attempt
            /\ timer <= BackoffSecs)
    /\ [][ /\ (pc' = "sleep" /\ errors' # errors) =>
                /\ timer' = BackoffSecs
                /\ connection_state' = ConnectionError(Format(last_event'.err))
                /\ pc = "select" => opens' = opens
           /\ (pc = "sleep" /\ timer > 0) =>
                /\ opens' = opens
                /\ pc' = "sleep"
                /\ connection_state' = connection_state
           /\ (pc = "sleep" /\ opens' # opens) =>
                /\ timer = 0
                /\ Len(opens') = Attempts + 1
         ]_vars
    /\ (pc = "sleep" /\ timer = 0) ~>
          /\ last_event.kind \in {"open_ok", "open_err"}
          /\ pc = "select" \/ timer = BackoffSecs

\* a connection that had been opened failed, the delay passed, and the one
\* new attempt succeeded
C6_Witness ==
    /\ Attempts = 2
    /\ opens = <<TRUE, TRUE>>
    /\ errors = 1
    /\ pc = "select"

\* C7 as stated: Connected is entered from Connecting only, so a retry
\* passes through Connecting.
C7_RetryPassesThroughConnecting ==
    [][(connection_state' = Connected /\ connection_state # Connected)
          => connection_state = Connecting]_vars

\* C7 as amended: Connecting is the initial status only and is never set
\* again; during a retry the status stays ConnectionError, and it becomes
\* Connected directly when the open succeeds, or ConnectionError with the
\* new message when it fails.
C7_RetryKeepsErrorStatus ==
    /\ [](pc = "select" => connection_state = Connected)
    /\ [](connection_state = Connecting <=> pc = "start")
    /\ [][ /\ (connection_state' = Connected /\ connection_state # Connected) =>
                \/ (connection_state = Connecting /\ opens = <<>>)
                \/ /\ connection_state.tag = "ConnectionError"
                   /\ pc = "sleep"
                   /\ timer = 0
           /\ (pc = "sleep" /\ opens' # opens /\ pc' = "sleep") =>
                connection_state' = ConnectionError(Format(last_event'.err))
         ]_vars

\* a retry has succeeded after a failed retry
C7_Witness ==
    /\ connection_state = Connected
    /\ Attempts = 3
    /\ ~opens[2]

\* C8 Retries never give up: once an open has succeeded, every error starts
\* a backoff sleep of the fixed delay and never ends the task, every sleep
\* is followed by another attempt, and the task ends only by an orderly
\* close, with status Disconnected.
C8_RetriesNeverGiveUp ==
    /\ \A n \in 1..MaxErrors :
          (pc = "sleep" /\ Attempts = n) ~> (Attempts = n + 1)
    /\ [][(~is_first_connection_attempt /\ errors' # errors) =>
              /\ pc' = "sleep"
              /\ timer' = BackoffSecs
              /\ connection_state'.tag = "ConnectionError"]_vars
    /\ []((pc = "done" /\ ~is_first_connection_attempt) =>
              /\ connection_state = Disconnected
              /\ last_event.kind = "close")

\* every error the environment may raise has been retried
C8_Witness ==
    /\ pc = "select"
    /\ errors = MaxErrors
    /\ Attempts = MaxErrors + 1
    /\ ~opens[2]

\* C9 Orderly closure is terminal: after a close the status is
\* Disconnected and the task has returned; from then on the status, the
\* attempts, the timer and the player state stay as they are.
C9_OrderlyCloseTerminal ==
    /\ [](last_event.kind = "close" =>
            /\ pc = "done"
            /\ connection_state = Disconnected
            /\ timer = 0)
    /\ [][last_event.kind = "close" =>
            UNCHANGED <<pc, connection_state, opens, timer, last_event,
                        player_state, sent>>]_vars

\* closed on the second connection, commands submitted afterwards
C9_Witness ==
    /\ last_event.kind = "close"
    /\ Attempts = 2
    /\ submitted = MaxCommands
    /\ commands = <<>>

\* C10 as stated: every command transmitted was submitted while the status
\* was Connected; a command submitted without a live connection is dropped.
C10_CommandsOnlyWhileConnected ==
    \A i \in 1..Len(sent) : sent[i].at = "Connected"

(***************************************************************************)
(* The command channel, under Spec                                         *)
(***************************************************************************)
\* C11 Command drop while Disconnected: once the status is Disconnected the
\* task has returned and its channel holds nothing; a command submitted from
\* then on is lost, nothing is transmitted any more, and no transmitted
\* command was submitted at status Disconnected.
C11_NoSendWhileDisconnected ==
    /\ [](\A i \in 1..Len(sent) : sent[i].at # "Disconnected")
    /\ [](connection_state = Disconnected => pc = "done" /\ commands = <<>>)
    /\ [][connection_state = Disconnected =>
            /\ sent' = sent
            /\ connection_state' = Disconnected
            /\ (submitted' # submitted => dropped' = dropped + 1)]_vars

\* a command was transmitted, the connection closed, a command was submitted
C11_Witness ==
    /\ connection_state = Disconnected
    /\ dropped > 0
    /\ Len(sent) > 0

\* C12 Command ordering: the transmitted commands appear in the order of
\* their submission (ids are given out in submission order), and whatever
\* still waits in the channel was submitted after everything transmitted and
\* waits in submission order.
C12_TransmittedInSubmissionOrder ==
    /\ \A i, j \in 1..Len(sent) : i < j => sent[i].id < sent[j].id
    /\ \A i, j \in 1..Len(commands) : i < j => commands[i].id < commands[j].id
    /\ \A i \in 1..Len(sent) : \A j \in 1..Len(commands) : sent[i].id < commands[j].id

\* two commands waited in the channel together and both were transmitted,
\* with an inbound message handled in between
C12_Witness ==
    /\ Len(sent) = 2
    /\ sent[1].at = "Connecting"
    /\ sent[2].at = "Connecting"
    /\ last_event.kind = "cmd_sent"
    /\ player_state.volume = 12

\* the ids of the commands in a sequence of commands
Ids(q) == {q[i].id : i \in 1..Len(q)}

\* C13 At-most-once delivery: no command is transmitted twice or is both
\* transmitted and waiting; the commands that are transmitted or waiting
\* grow only by a new submission, so a command taken from the channel never
\* comes back; and the command whose encode or send failed is neither
\* transmitted nor put back.
C13_AtMostOnce ==
    /\ [](/\ Cardinality(Ids(sent)) = Len(sent)
          /\ Cardinality(Ids(commands)) = Len(commands)
          /\ Ids(sent) \cap Ids(commands) = {}
          /\ \A id \in Ids(sent) \cup Ids(commands) : id <= submitted)
    /\ [][/\ Ids(commands') \subseteq Ids(commands) \cup {submitted + 1}
          /\ Ids(sent') \subseteq Ids(sent) \cup Ids(commands)
          /\ (errors' # errors /\ last_event'.kind = "cmd_err" =>
                /\ sent' = sent
                /\ NextCommand(commands).id \notin Ids(commands'))]_vars

\* the send of the first command failed; after the reconnect the second
\* command was transmitted and the first was not
C13_Witness ==
    /\ submitted = 2
    /\ dropped = 0
    /\ errors = 1
    /\ opens = <<TRUE, TRUE>>
    /\ commands = <<>>
    /\ Len(sent) = 1
    /\ sent[1].id = 2
    /\ sent[1].conn = 2

(***************************************************************************)
(* Inbound messages and the player state, under Spec and LiveSpec          *)
(***************************************************************************)
\* C14 Decode failure forces reconnect: bytes that do not decode as an Event
\* end the connection as a receive error does: the status becomes
\* ConnectionError with the message of the failure, the player state is left
\* as it was, the task sleeps for the fixed delay, makes no attempt before
\* the delay has passed, and then makes one.
C14_DecodeFailureReconnects ==
    /\ [][errors' # errors /\ last_event'.kind \in {"decode_err", "recv_err"} =>
            /\ pc = "select"
            /\ connection_state = Connected
            /\ connection_state' = ConnectionError(Format(last_event'.err))
            /\ last_event'.err.context =
                 (IF last_event'.kind = "decode_err" THEN "Failed to decode Event"
                  ELSE "Failed to receive websocket message")
            /\ pc' = "sleep"
            /\ timer' = BackoffSecs
            /\ UNCHANGED <<player_state, heap, opens>>]_vars
    /\ [][last_event.kind = "decode_err" /\ opens' # opens =>
            pc = "sleep" /\ timer = 0]_vars
    /\ (last_event.kind = "decode_err" /\ pc = "sleep")
         ~> (last_event.kind \in {"open_ok", "open_err"})

\* a diff was applied, then undecodable bytes arrived, and the delay has
\* passed
C14_Witness ==
    /\ last_event.kind = "decode_err"
    /\ pc = "sleep"
    /\ timer = 0
    /\ player_state.volume = 12
    /\ connection_state = ConnectionError(Format(Error("Failed to decode Event", "invalid data")))

\* the values of a player state with the whole of diff d merged
Merged(vals, d) ==
    [f \in Fields |-> IF IsSome(d[f]) THEN Unwrap(d[f]) ELSE vals[f]]

\* C15 Atomic diff application: from one observable state to the next the
\* values of the player state either stay as they are or become the values
\* with the whole of the diff just received merged; no state holds a part of
\* a diff.
C15_WholeDiffOrNothing ==
    [][LET before == Values(heap, player_state)
           after  == Values(heap', player_state')
       IN  \/ after = before
           \/ /\ last_event'.kind = "diff"
              /\ after = Merged(before, last_event'.diff)]_vars

\* a diff naming two fields has just been merged into the default state
C15_Witness ==
    /\ last_event.kind = "diff"
    /\ Cardinality(DiffFields(last_event.diff)) = 2
    /\ Values(heap, player_state) # Values(DefaultHeap, DefaultState)
    /\ Values(heap, player_state) =
         Merged(Values(DefaultHeap, DefaultState), last_event.diff)

\* C16 Single writer, no read-your-writes: a step that submits a command,
\* transmits one or takes one from the channel leaves the player state as it
\* was; the player state changes only in a step of the connected task that
\* handles a diff, and then by that diff.
C16_OnlyDiffsWriteState ==
    [][/\ (submitted' # submitted \/ sent' # sent \/ commands' # commands
             \/ last_event'.kind \in {"cmd_sent", "cmd_err"}) =>
            UNCHANGED <<player_state, heap>>
       /\ (player_state' # player_state \/ heap' # heap) =>
            /\ pc = "select"
            /\ last_event'.kind = "diff"
            /\ DiffFields(last_event'.diff) # {}
            /\ UNCHANGED <<submitted, sent, commands>>]_vars

\* two commands were transmitted and the player state is still the default
C16_Witness ==
    /\ Len(sent) = 2
    /\ last_event.kind = "cmd_sent"
    /\ player_state = DefaultState
    /\ heap = DefaultHeap

\* C17 Side-channel messages are not part of state: a text message or an
\* Event::LogMessage is handled only while Connected and leaves the player
\* state, the status, the channel and the task's place in its loop as they
\* were.
C17_LoggedMessagesChangeNothing ==
    /\ [][last_event' # last_event /\ last_event'.kind \in {"text", "log"} =>
            /\ pc = "select"
            /\ connection_state = Connected
            /\ connection_state' = Connected
            /\ pc' = "select"
            /\ UNCHANGED <<player_state, heap, commands, sent, errors, opens>>]_vars
    /\ [](last_event.kind \in {"text", "log"} => last_event.err = NoError)

\* a diff was merged, then a text message arrived
C17_Witness ==
    /\ last_event.kind = "text"
    /\ connection_state = Connected
    /\ player_state.volume = 12
    /\ AsRef(heap, player_state.current_station) = Some("A")

\* C18 State lifecycle: the player state is the default one until a
\* connection has been opened; a step that ends a connection, counts down
\* the delay or opens a connection leaves it as it was; and on every
\* connection a field changes only when a received diff names it, so what
\* earlier connections accumulated stays until a diff replaces it.
C18_StateOutlivesConnections ==
    /\ [](Attempts = 0 \/ pc = "start" =>
            player_state = DefaultState /\ heap = DefaultHeap)
    /\ [][(pc' # pc \/ timer' # timer \/ opens' # opens
             \/ connection_state' # connection_state) =>
            UNCHANGED <<player_state, heap>>]_vars
    /\ [][\A f \in Fields :
            ValueOf(heap', player_state', f) # ValueOf(heap, player_state, f) =>
              /\ last_event'.kind = "diff"
              /\ IsSome(last_event'.diff[f])]_vars

\* what the first connection accumulated is there when, after an error, a
\* failed retry and two delays, the next connection has been opened
C18_Witness ==
    /\ opens = <<TRUE, FALSE, TRUE>>
    /\ last_event.kind = "open_ok"
    /\ player_state.volume = 12
    /\ AsRef(heap, player_state.current_station) = Some("A")

(***************************************************************************)
(* The connected session, under Spec                                       *)
(***************************************************************************)
\* the kinds of last_event that stand for an inbound message or a command
\* handled by the select loop
Handled == {"text", "log", "diff", "recv_err", "decode_err", "close",
            "cmd_sent", "cmd_err"}

\* C19 Connected before any traffic: the step that opens a channel, first or
\* retried, sets the status to Connected and handles no message and no
\* command; every step that handles an inbound message or transmits a
\* command starts at status Connected, on a channel that was opened.
C19_ConnectedBeforeTraffic ==
    /\ [](pc = "select" => connection_state = Connected)
    /\ [](\A i \in 1..Len(sent) : sent[i].conn \in 1..Len(opens) /\ opens[sent[i].conn])
    /\ [][opens' = Append(opens, TRUE) =>
            /\ connection_state' = Connected
            /\ last_event'.kind = "open_ok"
            /\ UNCHANGED <<sent, commands, player_state, heap>>]_vars
    /\ [][(sent' # sent \/ player_state' # player_state
             \/ (last_event' # last_event /\ last_event'.kind \in Handled)) =>
            /\ connection_state = Connected
            /\ pc = "select"
            /\ opens # <<>>
            /\ opens[Len(opens)]]_vars

\* on a retried channel a diff was merged and a command transmitted
C19_Witness ==
    /\ opens = <<TRUE, FALSE, TRUE>>
    /\ connection_state = Connected
    /\ last_event.kind = "cmd_sent"
    /\ sent[Len(sent)].conn = 3
    /\ player_state.volume = 12

\* C20 Diffs are applied once each, in arrival order: the step that takes a
\* state-changed message starts and ends at status Connected with the task
\* in its select loop, and it leaves the player state that one call of
\* update_from_diff with that message's diff gives, whose values are the
\* earlier values with that diff merged; so the state holds every diff
\* received so far, the latest on top.
C20_EachDiffAppliedOnceInOrder ==
    /\ [][(last_event'.kind = "diff"
             /\ (last_event' # last_event \/ player_state' # player_state
                   \/ heap' # heap)) =>
            LET d == last_event'.diff
                r == UpdateFromDiff(heap, player_state, d)
            IN  /\ connection_state = Connected
                /\ connection_state' = Connected
                /\ pc = "select"
                /\ pc' = "select"
                /\ player_state' = r.state
                /\ heap' = r.heap
                /\ Values(heap', player_state') = Merged(Values(heap, player_state), d)]_vars
    /\ [](last_event.kind = "diff" =>
            \A f \in DiffFields(last_event.diff) :
               ValueOf(heap, player_state, f) = Unwrap(last_event.diff[f]))

\* the volume was set to 12 by one diff and then to 10 by a later one, on
\* top of a station set before
C20_Witness ==
    /\ last_event = DiffEvent(SingleDiff("volume", 10))
    /\ player_state.volume = 10
    /\ AsRef(heap, player_state.current_station) = Some("A")
    /\ connection_state = Connected

(***************************************************************************)
(* The session task and its channel, under Spec                            *)
(***************************************************************************)
\* C21 Exclusive channel ownership: at most one websocket is open, and one is
\* open exactly while the task is in its select loop; a websocket is opened
\* only when none is open, by the first poll of the task or after an error
\* has set ConnectionError and the whole delay has passed; and a command
\* reaches the websocket only in a step of the task in its select loop.
C21_OneChannelOwnedByTask ==
    /\ [](channels \in {0, 1} /\ (channels = 1 <=> pc = "select"))
    /\ [][opens' # opens =>
            /\ channels = 0
            /\ \/ pc = "start" /\ opens = <<>>
               \/ /\ pc = "sleep"
                  /\ timer = 0
                  /\ connection_state.tag = "ConnectionError"
                  /\ opens # <<>>]_vars
    /\ [][sent' # sent =>
            /\ pc = "select"
            /\ channels = 1
            /\ last_event'.kind = "cmd_sent"
            /\ Len(sent') = Len(sent) + 1]_vars

\* the second websocket is open, the first one ended with an error, and a
\* command went out on each
C21_Witness ==
    /\ opens = <<TRUE, TRUE>>
    /\ channels = 1
    /\ Len(sent) = 2
    /\ sent[1].conn = 1
    /\ sent[2].conn = 2

\* the kinds of last_event that stand for an error of a connection
ConnectionErrors == {"open_err", "recv_err", "decode_err", "cmd_err"}

\* C24 The first-attempt flag: the flag is set exactly until an open has
\* succeeded and is never set again; of the errors of a connection only the
\* failure of the first open ends the task, an error raised after an open
\* has succeeded, the first one included, sets ConnectionError and starts
\* the delay before a retry.
C24_FlagClearedByFirstOpen ==
    /\ [](is_first_connection_attempt <=> \A i \in 1..Len(opens) : ~opens[i])
    /\ [](is_first_connection_attempt => Len(opens) <= 1)
    /\ [][~is_first_connection_attempt => ~is_first_connection_attempt']_vars
    /\ [][errors' # errors /\ last_event'.kind \in ConnectionErrors =>
            /\ connection_state' = ConnectionError(Format(last_event'.err))
            /\ IF last_event'.kind = "open_err" /\ opens = <<>>
               THEN pc' = "done"
               ELSE pc' = "sleep" /\ timer' = BackoffSecs]_vars

\* the first connection was opened and a receive error ended it before any
\* diff or command: the task is in its delay
C24_Witness ==
    /\ opens = <<TRUE>>
    /\ last_event.kind = "recv_err"
    /\ pc = "sleep"
    /\ connection_state.tag = "ConnectionError"
    /\ player_state = DefaultState
    /\ submitted = 0

\* C25 The player state changes only while Connected: a step that changes
\* the player state starts and ends at status Connected; at any other
\* status, and for good once the task has returned, it stays as it is.
C25_StateChangesOnlyWhileConnected ==
    /\ [][(player_state' # player_state \/ heap' # heap) =>
            connection_state = Connected /\ connection_state' = Connected]_vars
    /\ [][pc = "done" => pc' = "done" /\ UNCHANGED <<player_state, heap, connection_state>>]_vars
    /\ [](connection_state = Disconnected => pc = "done")
    /\ [](connection_state = Connecting => player_state = DefaultState /\ heap = DefaultHeap)

\* the session ended after diffs had been merged
C25_Witness ==
    /\ connection_state = Disconnected
    /\ player_state.volume = 10
    /\ AsRef(heap, player_state.current_station) = Some("A")
    /\ submitted = MaxCommands

\* C23 Status banner: what ConnectionStateView rendered last is the view of
\* the current status: no header iff the status is Connected, the connecting
\* text for Connecting, the terminated text for Disconnected and the carried
\* message for ConnectionError.
C23_BannerReflectsStatus ==
    /\ (banner = None <=> connection_state = Connected)
    /\ (connection_state = Connecting => banner = Some(<<"Connecting...">>))
    /\ (connection_state = Disconnected => banner = Some(<<"RRadio has terminated">>))
    /\ (connection_state.tag = "ConnectionError" =>
          banner = Some(connection_state.msg) /\ connection_state.msg # <<>>)

\* the banner shows the message of a failed retry
C23_Witness ==
    /\ banner = Some(<<"Failed to open websocket", ": ", "refused">>)
    /\ opens = <<TRUE, FALSE>>
    /\ pc = "sleep"

(***************************************************************************)
(* Input handling, under InputSpec                                         *)
(***************************************************************************)
\* the text is a numeral of the type: digits only, after an optional sign
\* that the type admits
IsNumeral(signed, t) ==
    LET sign == t # <<>> /\ (t[1] = "+" \/ (signed /\ t[1] = "-"))
        body == IF sign THEN Tail(t) ELSE t
    IN  body # <<>> /\ \A k \in 1..Len(body) : IsDigit(body[k])

\* C22 Malformed user input: an input event whose text is no numeral of the
\* command's type sends nothing: the channel, the count of submitted
\* commands and the last command built stay as they were; an event whose
\* text is a numeral puts exactly one command on the channel, built from
\* the number the text denotes.
C22_OnlyParsedInputIsSubmitted ==
    [][LET e == typed'[1]
           signed == e.input = "SetVolume"
           r == FromStr(signed, e.text)
       IN  /\ r.ok <=> IsNumeral(signed, e.text)
           /\ IF IsNumeral(signed, e.text)
              THEN /\ submitted' = submitted + 1
                   /\ Len(commands') = Len(commands) + 1
                   /\ commands'[Len(commands')].id = submitted'
                   /\ issued' = <<Command(e.input, r.value)>>
                   /\ (e.text = <<"1", "2">> => r.value = 12)
                   /\ (e.text = <<"+", "1">> => r.value = 1)
                   /\ (e.text = <<"-", "2">> => r.value = -2)
              ELSE UNCHANGED <<submitted, commands, dropped, issued>>]_vars

\* the volume input delivered "-1", which was sent as SetVolume(-1); then
\* the position input delivered "-1", which is no u64, and nothing was sent
C22_Witness ==
    /\ typed = <<[input |-> "SeekTo", text |-> <<"-", "1">>]>>
    /\ issued = <<Command("SetVolume", -1)>>
    /\ submitted = 1
    /\ Len(commands) = 1

(***************************************************************************)
(* Sequences of diffs and the view's clones, under ViewSpec and DiffSpec   *)
(***************************************************************************)
\* the value the last diff of tr that names field f carries, the default of
\* f when none names it
RECURSIVE LastWriter(_, _)
LastWriter(tr, f) ==
    IF tr = <<>> THEN DefaultValue(f)
    ELSE IF IsSome(tr[Len(tr)][f]) THEN Unwrap(tr[Len(tr)][f])
    ELSE LastWriter(SubSeq(tr, 1, Len(tr) - 1), f)

\* C26 Last-writer-wins: after the diffs of trace have been applied in order
\* to the default state, every field holds the value of the last diff that
\* names it, or its default; what the diffs carry for other fields plays no
\* part.
C26_LastWriterWins ==
    \A f \in Fields : ValueOf(heap, player_state, f) = LastWriter(trace, f)

\* a diff naming every field, then a diff naming the volume alone
C26_Witness ==
    /\ Len(trace) = 2
    /\ DiffFields(trace[1]) = Fields
    /\ trace[2] = SingleDiff("volume", 12)
    /\ Unwrap(trace[1].volume) = 10
    /\ player_state.volume = 12
    /\ AsRef(heap, player_state.current_track_tags) = Some("T")

\* C27 Change detection by snapshot: a clone the view took of a wrapped
\* field is identity-equal to the field in the state iff no diff applied
\* since the clone carried a replacement for that field, and it reads the
\* content it was taken with, whatever was applied since.
C27_SnapshotEqualIffNotReplaced ==
    \A i \in 1..Len(snapshots) :
        /\ FastEq(heap, snapshots[i].ptr, player_state[snapshots[i].field])
             <=> ~snapshots[i].replaced
        /\ heap[snapshots[i].ptr].strong >= 1
        /\ AsRef(heap, snapshots[i].ptr) = snapshots[i].content

\* the station was replaced by an equal content after the first clone and
\* by a different one before it; the second clone is current
C27_Witness ==
    /\ Len(snapshots) = 2
    /\ snapshots[1].field = "current_station"
    /\ snapshots[1].replaced
    /\ snapshots[1].content = Some("A")
    /\ AsRef(heap, player_state.current_station) = Some("A")
    /\ snapshots[2].field = "current_station"
    /\ ~snapshots[2].replaced
    /\ Len(trace) = 2

\* C28 Optional fields: a diff that carries the absent value for an optional
\* field sets the field to absent, and gives a wrapped field a new identity;
\* a diff that does not name the field leaves its value, and the identity of
\* a wrapped field, as they were.
C28_AbsentValueIsAReplacement ==
    applied > 0 =>
        \A f \in OptionalFields :
            /\ last_diff[f] = Some(None) =>
                 /\ ValueOf(heap, player_state, f) = None
                 /\ f \in WrappedFields =>
                      ~FastEq(heap, player_state[f], prev_state[f])
            /\ last_diff[f] = None =>
                 /\ ValueOf(heap, player_state, f) = ValueOf(prev_heap, prev_state, f)
                 /\ f \in WrappedFields =>
                      FastEq(heap, player_state[f], prev_state[f])

\* the station was set and is replaced by the absent value, by a diff that
\* does not name the duration, which stays set
C28_Witness ==
    /\ applied = 2
    /\ last_diff = SingleDiff("current_station", None)
    /\ AsRef(prev_heap, prev_state.current_station) = Some("A")
    /\ AsRef(heap, player_state.current_station) = None
    /\ player_state.track_duration = Some(60)

(***************************************************************************)
(* Adding a podcast, under PodcastSpec                                     *)
(***************************************************************************)
\* a <= b for lower-case titles, char by char, a prefix first
RECURSIVE LexLeq(_, _)
LexLeq(a, b) ==
    IF a = <<>> THEN TRUE
    ELSE IF b = <<>> THEN FALSE
    ELSE IF Head(a) = Head(b) THEN LexLeq(Tail(a), Tail(b))
    ELSE CodePoint(Head(a)) < CodePoint(Head(b))

OrderedByTitle(list) ==
    \A i \in 1..(Len(list) - 1) :
        LexLeq(Lowercase(list[i].title), Lowercase(list[i + 1].title))

Entries(list) == {list[i] : i \in 1..Len(list)}

\* what a step that ends the add_podcast task of url leaves, but for the
\* stored list after a successful fetch
AddedOrRefused(url) ==
    IF last_add'.kind = "ok"
    THEN /\ \E k \in 1..Len(podcasts') : podcasts'[k].url = url
         /\ Len(podcasts') = Len(podcasts) + 1
         /\ Entries(podcasts) \subseteq Entries(podcasts')
         /\ OrderedByTitle(podcasts')
         /\ selected_podcast_index' < Len(podcasts')
         /\ podcasts'[selected_podcast_index' + 1].url = url
    ELSE /\ podcasts' = podcasts
         /\ selected_podcast_index' = selected_podcast_index
         /\ stored' = stored
         /\ new_podcast' = new_podcast
         /\ new_podcast_error' # <<>>

\* C29 as stated: after a successful fetch the new entry is in the list, the
\* list is ordered by case-insensitive title, the selected index refers to
\* an entry with the added URL and the stored list is the list; after a
\* failed fetch the list, the index and the stored list are unchanged and
\* only the error text is set.
C29_AddSavesTheList ==
    [][last_add'.n # last_add.n =>
         \E i \in 1..Len(fetching) :
             /\ fetching' = RemoveAt(fetching, i)
             /\ AddedOrRefused(fetching[i])
             /\ last_add'.kind = "ok" => stored' = podcasts']_vars

\* C29 amended: as above, but the stored list is the list only when the
\* write to storage succeeded; when it failed the stored list is the one
\* from before the add.
C29_AddSavesTheListUnlessWriteFails ==
    [][last_add'.n # last_add.n =>
         \E i \in 1..Len(fetching) :
             /\ fetching' = RemoveAt(fetching, i)
             /\ AddedOrRefused(fetching[i])
             /\ last_add'.kind = "ok" => stored' \in {podcasts', stored}]_vars

\* "B" was added and stored; "a" was then added from u2, sorted before it
\* and selected, and the write of the two entries failed
C29_Witness ==
    /\ last_add = [n |-> 2, kind |-> "ok"]
    /\ podcasts = <<Podcast(<<"a">>, "u2"), Podcast(<<"B">>, "u1")>>
    /\ selected_podcast_index = 0
    /\ stored = <<Podcast(<<"B">>, "u1")>>

====
